---------------------------- MODULE Spec2Model ----------------------------
(***************************************************************************)
(* Model of app.py: one render cycle of the bicycle-route map.             *)
(*                                                                         *)
(*   load_route_csv  ->  df.empty check  ->  multiselect  ->  isin filter  *)
(*   ->  build_geojson  ->  centre + pydeck chart  ->  download button     *)
(*                                                                         *)
(* Column names of the CSV are written in ASCII:                           *)
(*   "seq"    the sequence column          (line 24)                       *)
(*   "route"  the route identifier column  (line 27)                       *)
(*   "lat_xp" the latitude column          (line 32)                       *)
(*   "lon_yp" the longitude column         (line 35)                       *)
(* and "lat", "lon" are the two columns the loader adds (lines 40-41).     *)
(*                                                                         *)
(* A raw CSV cell is a sequence of characters.  A coerced cell is a record *)
(* [isna, v]: isna = TRUE is NaN / <NA>; otherwise v is the number.        *)
(* float64 columns (seq, lat, lon) hold v in tenths, so that "1.5" is 15   *)
(* and "36" is 360; the Int64 route column holds v as the integer itself.  *)
(***************************************************************************)
EXTENDS Integers, Sequences, FiniteSets, TLC

VARIABLES
    pc,               \* position of the script
    fileOk,           \* can the CSV at data_path be opened and decoded
    columns,          \* stripped header of the CSV
    raw,              \* the parsed rows of the CSV, raw cells
    df,               \* result of load_route_csv
    route_ids,        \* options of the multiselect
    selected_routes,  \* the user's selection
    filtered,         \* df restricted to the selection
    g_sorted,         \* per route key: the rows of the group as sort_values left them
    geojson_obj,      \* features of the feature collection
    st,               \* what the page shows, in order
    exception,        \* the uncaught exception, "none" if none
    trace             \* the steps executed so far, in order

vars == <<pc, fileOk, columns, raw, df, route_ids, selected_routes, filtered,
          g_sorted, geojson_obj, st, exception, trace>>

\* Largest number of data rows of the CSV that is enumerated.
MaxRows == 3

-----------------------------------------------------------------------------
(* Values *)

NaN == [isna |-> TRUE, v |-> 0]

Num(n) == [isna |-> FALSE, v |-> n]

isna(x) == x.isna

RequiredColumns == {"seq", "route", "lat_xp", "lon_yp"}

\* The cells enumerated for each column of the CSV.
CellsOf(c) ==
    CASE c = "seq"    -> { <<>>, <<"1">>, <<"2">> }
      [] c = "route"  -> { <<"a">>, <<"1">>, <<"2">>, <<"1", ".", "5">> }
      [] c = "lat_xp" -> { <<>>, <<"3", "6">> }
      [] c = "lon_yp" -> { <<"a">>, <<"1", "2", "7">> }

AllCells == UNION { CellsOf(c) : c \in RequiredColumns }

RowsOver(cols) == { r \in [cols -> AllCells] : \A c \in cols : r[c] \in CellsOf(c) }

\* The files of n data rows over the columns cols.
TablesOver(cols, n) == [1..n -> RowsOver(cols)]

-----------------------------------------------------------------------------
(* pd.to_numeric(..., errors="coerce") *)

Digits == {"0", "1", "2", "3", "4", "5", "6", "7", "8", "9"}

DigitVal(ch) ==
    CASE ch = "0" -> 0 [] ch = "1" -> 1 [] ch = "2" -> 2 [] ch = "3" -> 3
      [] ch = "4" -> 4 [] ch = "5" -> 5 [] ch = "6" -> 6 [] ch = "7" -> 7
      [] ch = "8" -> 8 [] ch = "9" -> 9

AllDigits(s) == Len(s) > 0 /\ \A i \in 1..Len(s) : s[i] \in Digits

RECURSIVE IntOf(_)
IntOf(s) ==
    IF s = <<>> THEN 0
    ELSE 10 * IntOf(SubSeq(s, 1, Len(s) - 1)) + DigitVal(s[Len(s)])

\* A cell parses as a number when it is digits, or digits "." one digit (the
\* only fractions the tenths representation holds); an empty cell (read_csv
\* already made it NaN) and any other text give NaN, never an exception.
to_numeric(cell) ==
    LET dots == { i \in 1..Len(cell) : cell[i] = "." } IN
    IF AllDigits(cell) THEN Num(10 * IntOf(cell))
    ELSE IF /\ dots = {Len(cell) - 1}
            /\ AllDigits(SubSeq(cell, 1, Len(cell) - 2))
            /\ cell[Len(cell)] \in Digits
         THEN Num(10 * IntOf(SubSeq(cell, 1, Len(cell) - 2)) + DigitVal(cell[Len(cell)]))
         ELSE NaN


-----------------------------------------------------------------------------
(* load_route_csv *)

\* .astype("Int64") casts a float64 column safely or not at all: one value
\* that is not a whole number makes the cast of the column raise TypeError.
astype_Int64_raises(cells) ==
    \E i \in 1..Len(cells) :
        ~isna(to_numeric(cells[i])) /\ to_numeric(cells[i]).v % 10 # 0

astype_Int64(x) == IF isna(x) THEN NaN ELSE Num(x.v \div 10)

\* The exception load_route_csv ends with, "none" when it returns.
load_exception(ok, cols, rows) ==
    IF ~ok THEN "FileNotFoundError"
    ELSE IF "route" \in cols /\ astype_Int64_raises([i \in 1..Len(rows) |-> rows[i]["route"]])
         THEN "TypeError"
    ELSE IF "lat_xp" \notin cols \/ "lon_yp" \notin cols THEN "KeyError"
    ELSE "none"

\* Row i of df_local after the coercions and the two added columns; the
\* index label is the 0-based position in the file.
coerce_row(cols, r, i) ==
    [c \in cols \cup {"index", "lat", "lon"} |->
        CASE c = "index"  -> Num(i - 1)
          [] c = "seq"    -> to_numeric(r["seq"])
          [] c = "route"  -> astype_Int64(to_numeric(r["route"]))
          [] c = "lat_xp" -> to_numeric(r["lat_xp"])
          [] c = "lon_yp" -> to_numeric(r["lon_yp"])
          [] c = "lat"    -> to_numeric(r["lat_xp"])
          [] c = "lon"    -> to_numeric(r["lon_yp"])]

dropna(rows, subset) ==
    SelectSeq(rows, LAMBDA r : \A c \in subset : ~isna(r[c]))

\* load_route_csv without the dropna of line 44.
load_route_csv_keepna(cols, rows) ==
    [i \in 1..Len(rows) |-> coerce_row(cols, rows[i], i)]

load_route_csv(cols, rows) ==
    dropna([i \in 1..Len(rows) |-> coerce_row(cols, rows[i], i)], {"lat", "lon"})

-----------------------------------------------------------------------------
(* build_geojson *)

\* groupby(..., dropna=False): <NA> is a group key too.
groupby_keys_keepna(rows) == { rows[i]["route"] : i \in 1..Len(rows) }

\* df.groupby(...) with the default dropna=True: the group keys are the
\* values of the route column that are not <NA>.
groupby_keys(rows) ==
    { rows[i]["route"] : i \in { j \in 1..Len(rows) : ~isna(rows[j]["route"]) } }

\* The rows of one group, in the order they have in the frame.
group(rows, key) == SelectSeq(rows, LAMBDA r : r["route"] = key)

\* The default sort=True of groupby: the keys in ascending order.
RECURSIVE sorted_keys(_)
sorted_keys(S) ==
    IF S = {} THEN <<>>
    ELSE LET m == CHOOSE x \in S : \A y \in S : x.v <= y.v
         IN <<m>> \o sorted_keys(S \ {m})

Perms(n) == { p \in [1..n -> 1..n] : \A i, j \in 1..n : i # j => p[i] # p[j] }

\* numpy argsort(kind="quicksort"): some permutation that puts the values in
\* non-decreasing order; quicksort is not a stable sort, so the order among
\* equal values is any.
argsort(values) ==
    { p \in Perms(Len(values)) :
        \A i, j \in 1..Len(values) : i < j => values[p[i]] <= values[p[j]] }

\* g.sort_values("seq") with the defaults kind="quicksort", na_position="last"
\* (pandas nargsort): the rows with a sequence number in argsort order, then
\* the rows without one in their original order.  The result is the set of
\* row orders the call can return.
sort_values(g) ==
    LET idx      == [i \in 1..Len(g) |-> i]
        non_nan  == SelectSeq(idx, LAMBDA i : ~isna(g[i]["seq"]))
        nan_idx  == SelectSeq(idx, LAMBDA i : isna(g[i]["seq"]))
        non_nans == [k \in 1..Len(non_nan) |-> g[non_nan[k]]["seq"].v]
    IN { [k \in 1..Len(g) |->
            IF k <= Len(non_nan) THEN g[non_nan[p[k]]] ELSE g[nan_idx[k - Len(non_nan)]]]
         : p \in argsort(non_nans) }

\* The columns taken in the order ["lat", "lon"].
coords_of_latlon(gs) ==
    LET kept == dropna(gs, {"lon", "lat"})
    IN [k \in 1..Len(kept) |-> <<kept[k]["lat"].v, kept[k]["lon"].v>>]

\* g_sorted[["lon", "lat"]].dropna().values.tolist()
coords_of(gs) ==
    LET kept == dropna(gs, {"lon", "lat"})
    IN [k \in 1..Len(kept) |-> <<kept[k]["lon"].v, kept[k]["lat"].v>>]

\* The test of line 59 written as len(coords) < 1.
too_short_one(coords) == Len(coords) < 1

\* line 59: if len(coords) < 2: continue
too_short(coords) == Len(coords) < 2

\* properties.route_id is int(route_id) of the group key.
feature(route_id, coords) == [route_id |-> route_id.v, coordinates |-> coords]

\* The feature list for one choice gs of g_sorted per group.
features_of(keys, gs) ==
    LET ks   == sorted_keys(keys)
        kept == SelectSeq(ks, LAMBDA k : ~too_short(coords_of(gs[k])))
    IN [n \in 1..Len(kept) |-> feature(kept[n], coords_of(gs[kept[n]]))]

\* Every assignment of a sort_values result to each group of rows.
sorted_groups(rows) ==
    { gs \in [groupby_keys(rows) -> UNION { sort_values(group(rows, k)) : k \in groupby_keys(rows) }] :
        \A k \in groupby_keys(rows) : gs[k] \in sort_values(group(rows, k)) }

\* sorted(df["route"].dropna().unique().tolist()), as a set
unique_routes(rows) ==
    { rows[i]["route"].v : i \in { j \in 1..Len(rows) : ~isna(rows[j]["route"]) } }

\* The frame passed on without the isin mask.
isin_filter_all(rows, sel) == rows

\* df[df["route"].isin(selected_routes)]
isin_filter(rows, sel) ==
    SelectSeq(rows, LAMBDA r : ~isna(r["route"]) /\ r["route"].v \in sel)

-----------------------------------------------------------------------------
(* The script, top to bottom *)

Init ==
    /\ pc = "load"
    /\ \/ fileOk = FALSE /\ columns = {} /\ raw = <<>>
       \/ /\ fileOk = TRUE
          /\ columns \in SUBSET RequiredColumns
          /\ \E n \in 0..MaxRows : raw \in TablesOver(columns, n)
    /\ df = <<>>
    /\ route_ids = {}
    /\ selected_routes = {}
    /\ filtered = <<>>
    /\ g_sorted = <<>>
    /\ geojson_obj = <<>>
    /\ st = <<>>
    /\ exception = "none"
    /\ trace = <<>>

\* line 81: df = load_route_csv(data_path); nothing catches what it raises.
LoadRouteCsv ==
    /\ pc = "load"
    /\ trace' = Append(trace, "load")
    /\ exception' = load_exception(fileOk, columns, raw)
    /\ IF exception' = "none"
       THEN /\ df' = load_route_csv(columns, raw)
            /\ pc' = "check_empty"
       ELSE /\ df' = df
            /\ pc' = "raised"
    /\ UNCHANGED <<fileOk, columns, raw, route_ids, selected_routes, filtered,
                   g_sorted, geojson_obj, st>>

\* lines 83-88: an empty df is reported with st.error and the script stops;
\* otherwise the options of the multiselect are the route ids present.
CheckEmpty ==
    /\ pc = "check_empty"
    /\ trace' = Append(trace, "check_empty")
    /\ IF df = <<>>
       THEN /\ st' = Append(st, "error_empty")
            /\ pc' = "stopped"
            /\ UNCHANGED <<route_ids, exception>>
       ELSE IF "route" \notin columns
       THEN /\ exception' = "KeyError"
            /\ pc' = "raised"
            /\ UNCHANGED <<route_ids, st>>
       ELSE /\ route_ids' = unique_routes(df)
            /\ pc' = "multiselect"
            /\ UNCHANGED <<st, exception>>
    /\ UNCHANGED <<fileOk, columns, raw, df, selected_routes, filtered,
                   g_sorted, geojson_obj>>

\* lines 90-94: the user's selection, any subset of the options.
Multiselect ==
    /\ pc = "multiselect"
    /\ trace' = Append(trace, "multiselect")
    /\ selected_routes' \in SUBSET route_ids
    /\ pc' = "filter"
    /\ UNCHANGED <<fileOk, columns, raw, df, route_ids, filtered, g_sorted,
                   geojson_obj, st, exception>>

\* lines 101-109 with the two st.stop() calls left out: the warnings are shown
\* and the script goes on.
FilterRows_no_stop ==
    /\ pc = "filter"
    /\ trace' = Append(trace, "filter")
    /\ filtered' = isin_filter(df, selected_routes)
    /\ st' = IF selected_routes = {} THEN Append(st, "warning_no_selection")
             ELSE IF filtered' = <<>> THEN Append(st, "warning_no_rows")
             ELSE st
    /\ pc' = "build"
    /\ UNCHANGED <<fileOk, columns, raw, df, route_ids, selected_routes,
                   g_sorted, geojson_obj, exception>>

\* lines 101-109: warnings for an empty selection and for an empty filter
\* result, each followed by st.stop().
FilterRows ==
    /\ pc = "filter"
    /\ trace' = Append(trace, "filter")
    /\ IF selected_routes = {}
       THEN /\ st' = Append(st, "warning_no_selection")
            /\ pc' = "stopped"
            /\ filtered' = filtered
       ELSE /\ filtered' = isin_filter(df, selected_routes)
            /\ IF filtered' = <<>>
               THEN /\ st' = Append(st, "warning_no_rows")
                    /\ pc' = "stopped"
               ELSE /\ st' = st
                    /\ pc' = "build"
    /\ UNCHANGED <<fileOk, columns, raw, df, route_ids, selected_routes,
                   g_sorted, geojson_obj, exception>>

\* line 111: geojson_obj = build_geojson(filtered).  sort_values("seq") raises
\* KeyError for the first group when the file has no sequence column.
BuildGeojson ==
    /\ pc = "build"
    /\ trace' = Append(trace, "build")
    /\ IF groupby_keys(filtered) # {} /\ "seq" \notin columns
       THEN /\ exception' = "KeyError"
            /\ pc' = "raised"
            /\ UNCHANGED <<g_sorted, geojson_obj>>
       ELSE /\ g_sorted' \in sorted_groups(filtered)
            /\ geojson_obj' = features_of(groupby_keys(filtered), g_sorted')
            /\ pc' = "render"
            /\ exception' = exception
    /\ UNCHANGED <<fileOk, columns, raw, df, route_ids, selected_routes,
                   filtered, st>>

\* lines 113-168: the centre of the view, the layers and the chart.
RenderMap ==
    /\ pc = "render"
    /\ trace' = Append(trace, "render")
    /\ IF dropna(filtered, {"lat", "lon"}) = <<>>
       THEN /\ st' = Append(st, "error_center")
            /\ pc' = "stopped"
       ELSE /\ st' = Append(st, "pydeck_chart")
            /\ pc' = "download"
    /\ UNCHANGED <<fileOk, columns, raw, df, route_ids, selected_routes,
                   filtered, g_sorted, geojson_obj, exception>>

\* lines 171-181: the download button for geojson_obj and the data table.
Download ==
    /\ pc = "download"
    /\ trace' = Append(trace, "download")
    /\ st' = st \o <<"download_button", "dataframe">>
    /\ pc' = "done"
    /\ UNCHANGED <<fileOk, columns, raw, df, route_ids, selected_routes,
                   filtered, g_sorted, geojson_obj, exception>>

Next ==
    \/ LoadRouteCsv
    \/ CheckEmpty
    \/ Multiselect
    \/ FilterRows
    \/ BuildGeojson
    \/ RenderMap
    \/ Download

Spec == Init /\ [][Next]_vars

-----------------------------------------------------------------------------
(* build_geojson as a function of its argument: every frame of up to       *)
(* MaxRows rows with the four columns coerced, whether or not the loader   *)
(* and the filter would let the row through.                               *)

SeqValues == { NaN, Num(10), Num(20) }

RouteValues == { NaN, Num(1), Num(2) }

LatValues == { NaN, Num(360), Num(370) }

LonValues == { NaN, Num(1270) }

frame_row(t, i) ==
    [c \in RequiredColumns \cup {"index", "lat", "lon"} |->
        CASE c = "index"  -> Num(i - 1)
          [] c = "seq"    -> t[1]
          [] c = "route"  -> t[2]
          [] c = "lat_xp" -> t[3]
          [] c = "lon_yp" -> t[4]
          [] c = "lat"    -> t[3]
          [] c = "lon"    -> t[4]]

FrameCells(n) == [1..n -> SeqValues \X RouteValues \X LatValues \X LonValues]

frame(t) == [i \in 1..Len(t) |-> frame_row(t[i], i)]

InitBuild ==
    /\ pc = "build"
    /\ fileOk = TRUE
    /\ columns = RequiredColumns
    /\ raw = <<>>
    /\ df = <<>>
    /\ route_ids = {}
    /\ selected_routes = {}
    /\ \E n \in 0..MaxRows : \E t \in FrameCells(n) : filtered = frame(t)
    /\ g_sorted = <<>>
    /\ geojson_obj = <<>>
    /\ st = <<>>
    /\ exception = "none"
    /\ trace = <<>>

SpecBuild == InitBuild /\ [][BuildGeojson]_vars

-----------------------------------------------------------------------------
(* Vocabulary of the properties, stated on the argument and the result of  *)
(* build_geojson without the operators that model its body.                *)

Built == pc \in {"render", "download", "done"}

HasRoute(r) == ~r["route"].isna

IsValid(r) == ~r["lat"].isna /\ ~r["lon"].isna

RouteIdsOf(rows) == { rows[i]["route"].v : i \in { j \in 1..Len(rows) : HasRoute(rows[j]) } }

\* The valid rows of route k, in the order of the frame.
ValidOf(rows, k) ==
    SelectSeq(rows, LAMBDA r : HasRoute(r) /\ r["route"].v = k /\ IsValid(r))

Qualifying(rows) == { k \in RouteIdsOf(rows) : Len(ValidOf(rows, k)) >= 2 }

FeaturesFor(k) == { n \in 1..Len(geojson_obj) : geojson_obj[n].route_id = k }

PointOf(r) == <<r["lon"].v, r["lat"].v>>

\* pts is the rows vs rearranged so that no row with a sequence number comes
\* before a row with a smaller one, each row given as its [lon, lat] pair.
OrderedPointsOf(pts, vs) ==
    /\ Len(pts) = Len(vs)
    /\ \E p \in Perms(Len(vs)) :
          /\ \A i \in 1..Len(vs) : pts[i] = PointOf(vs[p[i]])
          /\ \A i, j \in 1..Len(vs) :
                (i < j /\ ~vs[p[i]]["seq"].isna /\ ~vs[p[j]]["seq"].isna)
                    => vs[p[i]]["seq"].v <= vs[p[j]]["seq"].v

RECURSIVE TotalPoints(_)
TotalPoints(fs) ==
    IF fs = <<>> THEN 0 ELSE Len(Head(fs).coordinates) + TotalPoints(Tail(fs))

RECURSIVE SumValid(_, _)
SumValid(rows, ks) ==
    IF ks = {} THEN 0
    ELSE LET k == CHOOSE x \in ks : TRUE
         IN Len(ValidOf(rows, k)) + SumValid(rows, ks \ {k})

-----------------------------------------------------------------------------
(* Properties of build_geojson, checked under SpecBuild *)

\* C1: every route with at least 2 valid rows has exactly one feature; its
\* coordinates are the [lon, lat] pairs of the group's valid rows, as many as
\* there are valid rows, arranged in the order of the rows' sequence numbers
\* (no point of a smaller sequence number after one of a larger).
C1_OneOrderedFeaturePerRoute ==
    Built =>
        \A k \in Qualifying(filtered) :
            /\ Cardinality(FeaturesFor(k)) = 1
            /\ \A n \in FeaturesFor(k) :
                  OrderedPointsOf(geojson_obj[n].coordinates, ValidOf(filtered, k))

\* A route whose rows arrive out of sequence order, with distinct points, and
\* its feature has been built.
C1_Witness ==
    /\ Built
    /\ \E k \in Qualifying(filtered) :
          LET vs == ValidOf(filtered, k)
          IN /\ ~vs[1]["seq"].isna /\ ~vs[2]["seq"].isna
             /\ vs[1]["seq"].v > vs[2]["seq"].v
             /\ PointOf(vs[1]) # PointOf(vs[2])
             /\ FeaturesFor(k) # {}

\* C2: the number of features is the number of routes with at least 2 valid
\* rows, a route with fewer has no feature, and every feature has at least 2
\* points.
C2_FeaturesAreQualifyingGroups ==
    Built =>
        /\ Len(geojson_obj) = Cardinality(Qualifying(filtered))
        /\ \A k \in RouteIdsOf(filtered) \ Qualifying(filtered) : FeaturesFor(k) = {}
        /\ \A n \in 1..Len(geojson_obj) : Len(geojson_obj[n].coordinates) >= 2

\* Two routes, one with 2 valid rows and one with a single valid row: one
\* feature for two groups.
C2_Witness ==
    /\ Built
    /\ Cardinality(RouteIdsOf(filtered)) = 2
    /\ Cardinality(Qualifying(filtered)) = 1
    /\ \E k \in RouteIdsOf(filtered) : Len(ValidOf(filtered, k)) = 1
    /\ Len(geojson_obj) = 1

\* C6: a row without a route id is in no group: every feature carries the
\* route id of some row that has one, and the features hold exactly the valid
\* rows of the qualifying routes, so a row without a route id gives no point.
C6_MissingRouteExcluded ==
    Built =>
        /\ \A n \in 1..Len(geojson_obj) : geojson_obj[n].route_id \in RouteIdsOf(filtered)
        /\ \A k \in DOMAIN g_sorted : \A i \in 1..Len(g_sorted[k]) : HasRoute(g_sorted[k][i])
        /\ TotalPoints(geojson_obj) = SumValid(filtered, Qualifying(filtered))

\* A valid row without a route id next to a route that got its feature.
C6_Witness ==
    /\ Built
    /\ \E i \in 1..Len(filtered) : ~HasRoute(filtered[i]) /\ IsValid(filtered[i])
    /\ geojson_obj # <<>>

\* a comes before b in the stable order: by ascending sequence number, a row
\* without one after every row with one, and otherwise by position in the
\* frame.
StableBefore(a, b) ==
    IF a["seq"].isna
    THEN b["seq"].isna /\ a["index"].v < b["index"].v
    ELSE \/ b["seq"].isna
         \/ a["seq"].v < b["seq"].v
         \/ a["seq"].v = b["seq"].v /\ a["index"].v < b["index"].v

\* C9: the points of each feature are the valid rows of its route in
\* ascending sequence order, rows with equal sequence numbers in their
\* original relative order, and the rows without a sequence number kept,
\* after the others, in their original relative order.
C9_StableSequenceOrder ==
    Built =>
        \A k \in Qualifying(filtered) : \A n \in FeaturesFor(k) :
            LET vs  == ValidOf(filtered, k)
                pts == geojson_obj[n].coordinates
            IN /\ Len(pts) = Len(vs)
               /\ \E p \in Perms(Len(vs)) :
                     /\ \A i, j \in 1..Len(vs) : i < j => StableBefore(vs[p[i]], vs[p[j]])
                     /\ \A i \in 1..Len(vs) : pts[i] = PointOf(vs[p[i]])

-----------------------------------------------------------------------------
(* Properties of the loader and of the render cycle, checked under Spec *)

Loaded == pc # "load"

Ended == pc \in {"stopped", "done", "raised"}

NumericCell(cell) == ~to_numeric(cell).isna

\* The 1-based positions of the rows of the file with a numeric latitude and
\* a numeric longitude.
ValidPositions ==
    { i \in 1..Len(raw) : NumericCell(raw[i]["lat_xp"]) /\ NumericCell(raw[i]["lon_yp"]) }

AllLatitudesMissing ==
    /\ "lat_xp" \in columns
    /\ \A i \in 1..Len(raw) : ~NumericCell(raw[i]["lat_xp"])

RowsSelected(rows, sel) ==
    SelectSeq(rows, LAMBDA r : HasRoute(r) /\ r["route"].v \in sel)

Shown(w) == \E i \in 1..Len(st) : st[i] = w

Warned == Shown("warning_no_selection") \/ Shown("warning_no_rows")

\* C3: for a file that opens and has the four columns, the
\* loader's output is exactly the rows whose latitude and longitude are both
\* numeric (so never more rows than the input), whatever their sequence and
\* route cells hold.
C3_LoaderKeepsExactlyValidRows ==
    (Loaded /\ fileOk /\ columns = RequiredColumns) =>
        /\ Len(df) <= Len(raw)
        /\ { df[i]["index"].v + 1 : i \in 1..Len(df) } = ValidPositions

\* C4: for a file that opens and has the four columns, load_route_csv
\* returns: no cell value makes a coercion raise.
C4_CoercionNeverRaises ==
    (Loaded /\ fileOk /\ columns = RequiredColumns) =>
        (exception = "none" /\ pc # "raised")

\* C5: a run never ends in an uncaught exception, and a run on a file that
\* cannot be opened or lacks a required column ends with an error message on
\* the page.
C5_NoUncaughtException ==
    Ended =>
        /\ pc # "raised"
        /\ exception = "none"
        /\ (~fileOk \/ columns # RequiredColumns) =>
              (Len(st) > 0 /\ st[Len(st)] \in {"error_empty", "error_center"})

\* C7: every feature of the collection built in the cycle, which is the one
\* the download button offers, has a route id of the user's selection.
C7_OnlySelectedRoutes ==
    \A n \in 1..Len(geojson_obj) : geojson_obj[n].route_id \in selected_routes

\* The cycle ran to the download with a route of 2 valid rows left out of a
\* non-empty selection.
C7_Witness ==
    /\ pc = "done"
    /\ Shown("download_button")
    /\ \E k \in route_ids \ selected_routes : Len(ValidOf(df, k)) >= 2

C10_WarningStopsBeforeBuild ==
    /\ Warned =>
          /\ pc = "stopped"
          /\ trace = <<"load", "check_empty", "multiselect", "filter">>
          /\ geojson_obj = <<>> /\ g_sorted = <<>>
          /\ ~Shown("pydeck_chart") /\ ~Shown("download_button")
    /\ (Len(trace) >= 4 /\ (selected_routes = {} \/ RowsSelected(df, selected_routes) = <<>>))
          => Warned
    /\ Shown("download_button") =>
          /\ trace = <<"load", "check_empty", "multiselect", "filter", "build",
                       "render", "download">>
          /\ selected_routes # {}
          /\ filtered # <<>>
          /\ filtered = RowsSelected(df, selected_routes)
          /\ exception = "none"

\* Routes were on offer, the user selected none, and the run stopped on the
\* warning.
C10_Witness ==
    /\ pc = "stopped"
    /\ st = <<"warning_no_selection">>
    /\ route_ids # {}
    /\ selected_routes = {}

=============================================================================
